---- MODULE Spec2Model ----
(***************************************************************************)
(* Model of scene/__init__.py: class Scene (construction, save and the    *)
(* two camera getters) together with the files it reads and writes and    *)
(* the calls it makes on the loaders and on the Gaussian model.           *)
(***************************************************************************)
EXTENDS Integers, Sequences, FiniteSets, TLC

\* ---------------------------------------------------------------- bounds
MaxCams == 2        \* the loader returns 1..MaxCams train and 0..MaxCams test cameras, MaxCams + 1 in all
MaxIter == 1        \* iteration numbers 0..MaxIter are saved and selected
MaxScales == 2      \* resolution scale values 1..MaxScales
MaxScaleLen == 2    \* length of the resolution_scales list

\* ---------------------------------------------------------- Python values
\* An optional integer: None is the empty tuple, the integer n is <<n>>.
None == <<>>
Num(n) == <<n>>

\* Python truth value of None or an integer (if load_iteration: / if self.loaded_iter:)
Truthy(v) == v # None /\ v[1] # 0

Digit(d) == <<"0", "1", "2", "3", "4", "5", "6", "7", "8", "9">>[d + 1]

RECURSIVE StrNat(_)
StrNat(n) == IF n < 10 THEN <<Digit(n)>> ELSE StrNat(n \div 10) \o <<Digit(n % 10)>>

\* str(n) and "{}".format(n) of an integer: its decimal digits, with a sign
Str(n) == IF n < 0 THEN <<"-">> \o StrNat(0 - n) ELSE StrNat(n)

\* The value of no list (the getter raised)
NoList == [id |-> 0, cams |-> <<>>]

\* The empty dict
EmptyDict == [s \in {} |-> NoList]

Range(f) == {f[i] : i \in DOMAIN f}

\* All orders of the elements of a sequence
Perms(seq) ==
    {p \in [1..Len(seq) -> Range(seq)] :
        \A i \in 1..Len(seq) : \E j \in 1..Len(seq) : p[j] = seq[i]}

\* ------------------------------------------------------------ input sets
ModelPath == "output"
ScaleVals == 1..MaxScales
Iterations == 0..MaxIter
\* absent, 'latest' (-1), another negative integer, and the iterations
Selectors == {None} \cup {Num(n) : n \in (0 - 2)..MaxIter}
\* a non-empty list of distinct scales
ScaleLists ==
    {l \in UNION {[1..n -> ScaleVals] : n \in 1..MaxScaleLen} :
        \A i, j \in DOMAIN l : l[i] = l[j] => i = j}

VARIABLES
    source,        \* the data set under args.source_path
    plyFiles,      \* the point_cloud.ply paths written under the model path
    input_ply,     \* content of <model_path>/input.ply, None when absent
    cameras_json,  \* content of <model_path>/cameras.json, None when absent
    scene,         \* the Scene object (self)
    init_args,     \* arguments of the latest construction
    call           \* the latest call: what it invoked, wrote and returned

vars == <<source, plyFiles, input_ply, cameras_json, scene, init_args, call>>

\* --------------------------------------------------------- collaborators
\* sceneLoadTypeCallbacks[name](source_path, ...): the scene description
readSceneInfo(name, src) ==
    [train_cameras |-> [i \in 1..src.nTrain |-> i],
     test_cameras |-> [i \in 1..src.nTest |-> MaxCams + 1 + i],
     ply_path |-> <<"source", "points3d.ply">>,
     point_cloud |-> <<"pcd", name>>,
     nerf_normalization |-> [radius |-> src.nTrain + 1]]

\* camera_to_JSON(id, cam): the object tagged with the id it is given
camera_to_JSON(id, cam) == [id |-> id, cam |-> cam]

\* cameraList_from_camInfos(cam_infos, resolution_scale, args): one camera
\* per record, in the order of the records
cameraList_from_camInfos(cam_infos, resolution_scale) ==
    [i \in 1..Len(cam_infos) |-> [info |-> cam_infos[i], scale |-> resolution_scale]]

\* the iteration numbers that have a directory under <model_path>/point_cloud
SavedIterations(files) ==
    {n \in Iterations :
        <<ModelPath, "point_cloud", <<"iteration_">> \o Str(n), "point_cloud.ply">> \in files}

\* searchForMaxIteration(folder): the highest iteration present, absent when none
searchForMaxIteration(files) ==
    IF SavedIterations(files) = {} THEN None
    ELSE Num(CHOOSE n \in SavedIterations(files) : \A m \in SavedIterations(files) : m <= n)

\* ------------------------------------------------------- Scene.__init__
\* lines 37-42: the resolved iteration
ResolveIteration(load_iteration, files) ==
    IF Truthy(load_iteration)
    THEN IF load_iteration = Num(0 - 1)
         THEN searchForMaxIteration(files)
         ELSE load_iteration
    ELSE None

\* variant: the transforms file is tested before the sparse directory
DetectSceneType_TransformsFirst(src) ==
    IF src.transforms THEN "Blender"
    ELSE IF src.sparse THEN "Colmap"
    ELSE "assert"

\* variant: a layout that is not recognised falls through to the Blender loader
DetectSceneType_Fallback(src) ==
    IF src.sparse THEN "Colmap" ELSE "Blender"

\* lines 49-56: which loader runs, "assert" when the layout is not recognised
DetectSceneType(src) ==
    IF src.sparse THEN "Colmap"
    ELSE IF src.transforms THEN "Blender"
    ELSE "assert"

\* variant: train cameras are listed before test cameras
CamList_TrainFirst(scene_info) ==
    scene_info.train_cameras \o scene_info.test_cameras

\* lines 66-70: test cameras, then train cameras
CamList(scene_info) ==
    (IF Len(scene_info.test_cameras) > 0 THEN scene_info.test_cameras ELSE <<>>)
    \o (IF Len(scene_info.train_cameras) > 0 THEN scene_info.train_cameras ELSE <<>>)

\* lines 72-73: enumerate(camlist) starts at 0
JsonCams(camlist) ==
    [i \in 1..Len(camlist) |-> camera_to_JSON(i - 1, camlist[i])]

\* variant: the sequence is shuffled whatever the flag
ShuffleOutcomes_Always(shuffle, seq) ==
    Perms(seq)

\* lines 79-81: random.shuffle(seq) when the flag is set
ShuffleOutcomes(shuffle, seq) ==
    IF shuffle THEN Perms(seq) ELSE {seq}

\* variant: the loop stops after its first iteration
LoadCameras_FirstOnly(resolution_scales, k, cam_infos, first, acc) ==
    IF k > Len(resolution_scales) THEN acc
    ELSE [s \in {resolution_scales[k]} |->
            [id |-> first + 2 * k,
             cams |-> cameraList_from_camInfos(cam_infos, resolution_scales[k])]]

\* lines 89-93: the loop over resolution_scales, from its k-th element on;
\* every cameraList_from_camInfos call returns a new list object
RECURSIVE LoadCameras(_, _, _, _, _)
LoadCameras(resolution_scales, k, cam_infos, first, acc) ==
    IF k > Len(resolution_scales) THEN acc
    ELSE LoadCameras(resolution_scales, k + 1, cam_infos, first,
            [s \in (DOMAIN acc) \cup {resolution_scales[k]} |->
                IF s = resolution_scales[k]
                THEN [id |-> first + 2 * k,
                      cams |-> cameraList_from_camInfos(cam_infos, resolution_scales[k])]
                ELSE acc[s]])

\* lines 98-101: the path the model is loaded from
LoadPlyPath(model_path, loaded_iter) ==
    <<model_path, "point_cloud", <<"iteration_">> \o Str(loaded_iter[1]), "point_cloud.ply">>

\* variant: the load branch tests "is not None", the create branch tests falsity
InitModel_TwoTests(model_path, loaded_iter, scene_info, cameras_extent) ==
    (IF loaded_iter # None
     THEN <<[m |-> "load_ply", path |-> LoadPlyPath(model_path, loaded_iter),
             pcd |-> None, extent |-> None]>>
     ELSE <<>>)
    \o (IF ~Truthy(loaded_iter)
        THEN <<[m |-> "create_from_pcd", path |-> None,
                pcd |-> scene_info.point_cloud, extent |-> Num(cameras_extent)]>>
        ELSE <<>>)

\* lines 97-103: load the persisted model or create it from the point cloud
InitModel(model_path, loaded_iter, scene_info, cameras_extent) ==
    IF Truthy(loaded_iter)
    THEN <<[m |-> "load_ply", path |-> LoadPlyPath(model_path, loaded_iter),
            pcd |-> None, extent |-> None]>>
    ELSE <<[m |-> "create_from_pcd", path |-> None,
            pcd |-> scene_info.point_cloud, extent |-> Num(cameras_extent)]>>

\* ----------------------------------------------------------- Scene.save
\* lines 106-107: os.path.join(model_path, "point_cloud/iteration_{}".format(iteration)),
\* then "point_cloud.ply"
SavePlyPath(model_path, iteration) ==
    <<model_path, "point_cloud", <<"iteration_">> \o Str(iteration), "point_cloud.ply">>

\* ------------------------------------------------------------ the getters
\* variant: self.train_cameras.get(scale, []), an empty list for a missing key
getTrainCameras_Default(self, scale) ==
    IF scale \in DOMAIN self.train_cameras
    THEN [outcome |-> "ok", ret |-> self.train_cameras[scale]]
    ELSE [outcome |-> "ok", ret |-> NoList]

\* lines 109-110: self.train_cameras[scale]
getTrainCameras(self, scale) ==
    IF scale \in DOMAIN self.train_cameras
    THEN [outcome |-> "ok", ret |-> self.train_cameras[scale]]
    ELSE [outcome |-> "KeyError", ret |-> NoList]

\* lines 112-113: self.test_cameras[scale]
getTestCameras(self, scale) ==
    IF scale \in DOMAIN self.test_cameras
    THEN [outcome |-> "ok", ret |-> self.test_cameras[scale]]
    ELSE [outcome |-> "KeyError", ret |-> NoList]

\* ------------------------------------------------------------------ state
NoScene ==
    [ok |-> FALSE, model_path |-> ModelPath, loaded_iter |-> None,
     train_cameras |-> EmptyDict, test_cameras |-> EmptyDict, cameras_extent |-> None]

NoArgs == [load_iteration |-> None, shuffle |-> FALSE, resolution_scales |-> <<>>]

NoCall ==
    [op |-> "none", arg |-> 0, outcome |-> "ok", loaders |-> <<>>, writes |-> {},
     modelCalls |-> <<>>, ret |-> NoList]

Init ==
    /\ source \in [sparse : BOOLEAN, transforms : BOOLEAN,
                   nTrain : 1..MaxCams, nTest : 0..MaxCams]
    /\ source.nTrain + source.nTest <= MaxCams + 1
    /\ plyFiles = {}
    /\ input_ply = None
    /\ cameras_json = None
    /\ scene = NoScene
    /\ init_args = NoArgs
    /\ call = NoCall

\* Scene(args, gaussians, load_iteration, shuffle, resolution_scales).
\* The constructor reads nothing of an earlier Scene object, so a run of the
\* program is modelled as: construct one Scene, use it, end (Exit); the files
\* stay for the next run.
Construct(load_iteration, shuffle, resolution_scales) ==
    LET loaded_iter == ResolveIteration(load_iteration, plyFiles)
        type == DetectSceneType(source)
        scene_info == readSceneInfo(type, source)
        fresh == ~Truthy(loaded_iter)
        cameras_extent == scene_info.nerf_normalization.radius
    IN  /\ call.op = "none"
        /\ init_args' = [load_iteration |-> load_iteration, shuffle |-> shuffle,
                         resolution_scales |-> resolution_scales]
        /\ UNCHANGED <<source, plyFiles>>
        /\ IF type = "assert"
           THEN /\ scene' = [NoScene EXCEPT !.loaded_iter = loaded_iter]
                /\ call' = [NoCall EXCEPT !.op = "Scene", !.outcome = "AssertionError"]
                /\ UNCHANGED <<input_ply, cameras_json>>
           ELSE \E train \in ShuffleOutcomes(shuffle, scene_info.train_cameras),
                   test \in ShuffleOutcomes(shuffle, scene_info.test_cameras) :
                /\ input_ply' = IF fresh THEN scene_info.ply_path ELSE input_ply
                /\ cameras_json' = IF fresh THEN JsonCams(CamList(scene_info))
                                   ELSE cameras_json
                /\ scene' = [ok |-> TRUE, model_path |-> ModelPath,
                             loaded_iter |-> loaded_iter,
                             train_cameras |->
                                 LoadCameras(resolution_scales, 1, train, 0 - 1, EmptyDict),
                             test_cameras |->
                                 LoadCameras(resolution_scales, 1, test, 0, EmptyDict),
                             cameras_extent |-> Num(cameras_extent)]
                /\ call' = [NoCall EXCEPT
                             !.op = "Scene",
                             !.loaders = <<type>>,
                             !.writes = IF fresh THEN {"input.ply", "cameras.json"} ELSE {},
                             !.modelCalls =
                                 InitModel(ModelPath, loaded_iter, scene_info, cameras_extent)]

\* scene.save(iteration)
Save(iteration) ==
    /\ scene.ok
    /\ plyFiles' = plyFiles \cup {SavePlyPath(scene.model_path, iteration)}
    /\ call' = [NoCall EXCEPT
                 !.op = "save", !.arg = iteration,
                 !.modelCalls = <<[m |-> "save_ply",
                                   path |-> SavePlyPath(scene.model_path, iteration),
                                   pcd |-> None, extent |-> None]>>]
    /\ UNCHANGED <<source, input_ply, cameras_json, scene, init_args>>

\* scene.getTrainCameras(scale)
GetTrainCameras(scale) ==
    /\ scene.ok
    /\ call' = [NoCall EXCEPT
                 !.op = "getTrainCameras", !.arg = scale,
                 !.outcome = getTrainCameras(scene, scale).outcome,
                 !.ret = getTrainCameras(scene, scale).ret]
    /\ UNCHANGED <<source, plyFiles, input_ply, cameras_json, scene, init_args>>

\* scene.getTestCameras(scale)
GetTestCameras(scale) ==
    /\ scene.ok
    /\ call' = [NoCall EXCEPT
                 !.op = "getTestCameras", !.arg = scale,
                 !.outcome = getTestCameras(scene, scale).outcome,
                 !.ret = getTestCameras(scene, scale).ret]
    /\ UNCHANGED <<source, plyFiles, input_ply, cameras_json, scene, init_args>>

\* the program that holds the Scene ends: the object is gone, the files stay
Exit ==
    /\ call.op # "none"
    /\ scene' = NoScene
    /\ init_args' = NoArgs
    /\ call' = NoCall
    /\ UNCHANGED <<source, plyFiles, input_ply, cameras_json>>

Next ==
    \/ \E load_iteration \in Selectors, shuffle \in BOOLEAN, resolution_scales \in ScaleLists :
          Construct(load_iteration, shuffle, resolution_scales)
    \/ \E iteration \in Iterations : Save(iteration)
    \/ \E scale \in ScaleVals : GetTrainCameras(scale)
    \/ \E scale \in ScaleVals : GetTestCameras(scale)
    \/ Exit

Spec == Init /\ [][Next]_vars

\* ------------------------------------------------------------ properties
\* what the loader returned to the latest construction
Loaded == readSceneInfo(DetectSceneType(source), source)

\* the camera records a camera list was built from, in its order
Infos(list) == [i \in 1..Len(list.cams) |-> list.cams[i].info]

\* the set of scales given to the latest construction
Requested == Range(init_args.resolution_scales)

Constructed == call.op = "Scene" /\ call.outcome = "ok"

ModelCallNames == {call.modelCalls[i].m : i \in DOMAIN call.modelCalls}

\* C1: every construction that completes makes exactly one model-initialisation
\* call on the model, load_ply or create_from_pcd, never both and never neither.
C1_ExactlyOneInit ==
    Constructed =>
        /\ Len(call.modelCalls) = 1
        /\ call.modelCalls[1].m \in {"load_ply", "create_from_pcd"}

\* C1 case: a negative selector other than 'latest' is used as the iteration
C1_WitnessNegative ==
    /\ Constructed
    /\ init_args.load_iteration = Num(0 - 2)
    /\ call.modelCalls[1].m = "load_ply"
    /\ call.modelCalls[1].path[3] = <<"iteration_", "-", "2">>

\* C1 case: 'latest' resolved to the saved iteration 0, and one call was made
C1_Witness ==
    /\ Constructed
    /\ init_args.load_iteration = Num(0 - 1)
    /\ scene.loaded_iter = Num(0)
    /\ Len(call.modelCalls) = 1

\* C2: a construction with an explicit non-negative iteration selector N writes
\* neither input.ply nor cameras.json.
C2_ResumeWritesNothing ==
    (/\ call.op = "Scene"
     /\ init_args.load_iteration # None
     /\ init_args.load_iteration[1] >= 0)
        => call.writes = {}

\* C3: after save(N), a construction with selector N loads the model from exactly
\* the path save(N) wrote and does not create it from the point cloud.
C3_SaveThenConstructLoads ==
    \A N \in Iterations :
        (/\ Constructed
         /\ init_args.load_iteration = Num(N)
         /\ SavePlyPath(ModelPath, N) \in plyFiles)
            => /\ Len(call.modelCalls) = 1
               /\ call.modelCalls[1].m = "load_ply"
               /\ call.modelCalls[1].path = SavePlyPath(ModelPath, N)

\* C4: a fresh-training construction writes to cameras.json one entry per camera,
\* entry i with id i (from 0), the test cameras in the loader's order followed by
\* the train cameras in the loader's order, whatever the shuffle flag.
C4_CamerasJson ==
    (Constructed /\ "cameras.json" \in call.writes) =>
        /\ cameras_json # None
        /\ Len(cameras_json) = Len(Loaded.test_cameras) + Len(Loaded.train_cameras)
        /\ \A i \in 1..Len(cameras_json) :
              /\ cameras_json[i].id = i - 1
              /\ cameras_json[i].cam =
                    IF i <= Len(Loaded.test_cameras)
                    THEN Loaded.test_cameras[i]
                    ELSE Loaded.train_cameras[i - Len(Loaded.test_cameras)]

\* C4 case: a fresh construction with test and train cameras whose train list
\* was shuffled out of the loader's order
C4_Witness ==
    /\ Constructed
    /\ "cameras.json" \in call.writes
    /\ init_args.shuffle
    /\ Len(Loaded.test_cameras) >= 1
    /\ Len(Loaded.train_cameras) >= 2
    /\ \E s \in DOMAIN scene.train_cameras :
          Infos(scene.train_cameras[s]) # Loaded.train_cameras

\* C5: with sparse present only the Colmap loader is invoked, with sparse absent
\* and transforms_train.json present only the Blender loader, with neither no
\* loader is invoked and the construction fails; a successful construction
\* invokes exactly one loader.
C5_Dispatch ==
    call.op = "Scene" =>
        /\ source.sparse => call.loaders = <<"Colmap">>
        /\ (~source.sparse /\ source.transforms) => call.loaders = <<"Blender">>
        /\ (~source.sparse /\ ~source.transforms) =>
              (call.loaders = <<>> /\ call.outcome = "AssertionError")
        /\ call.outcome = "ok" => Len(call.loaders) = 1

\* C5 case: both the sparse directory and the transforms file are present
C5_Witness ==
    /\ call.op = "Scene"
    /\ source.sparse
    /\ source.transforms
    /\ call.loaders = <<"Colmap">>

C6_Keys ==
    scene.ok =>
        /\ DOMAIN scene.train_cameras = DOMAIN scene.test_cameras
        /\ DOMAIN scene.train_cameras = Requested

C6_Kept ==
    call'.op \in {"save", "getTrainCameras", "getTestCameras"} =>
        /\ scene'.train_cameras = scene.train_cameras
        /\ scene'.test_cameras = scene.test_cameras

\* C6: after a successful construction and any save and getter calls, the keys of
\* the train mapping and of the test mapping are both exactly the requested
\* scales, and save and the getters leave every entry as it was.
C6_KeySets == [](C6_Keys) /\ [][C6_Kept]_vars

\* C6 case: two scales were requested and a save followed the construction
C6_Witness ==
    /\ scene.ok
    /\ Cardinality(Requested) = 2
    /\ call.op = "save"

C7_Result ==
    /\ call.op = "getTrainCameras" =>
          IF call.arg \in Requested
          THEN call.outcome = "ok" /\ call.ret = scene.train_cameras[call.arg]
          ELSE call.outcome = "KeyError" /\ call.ret = NoList
    /\ call.op = "getTestCameras" =>
          IF call.arg \in Requested
          THEN call.outcome = "ok" /\ call.ret = scene.test_cameras[call.arg]
          ELSE call.outcome = "KeyError" /\ call.ret = NoList

C7_Unchanged ==
    call'.op \in {"getTrainCameras", "getTestCameras"} =>
        /\ scene' = scene
        /\ plyFiles' = plyFiles
        /\ input_ply' = input_ply
        /\ cameras_json' = cameras_json
        /\ (call.op = call'.op /\ call.arg = call'.arg) => call'.ret.id = call.ret.id

\* C7: a getter returns the stored list of a requested scale, the same list
\* object on a repeated call, fails with KeyError for a scale that was not
\* requested, and leaves the Scene and the files unchanged.
C7_Getters == [](C7_Result) /\ [][C7_Unchanged]_vars

\* C7 case: a getter was called with a scale that was not requested
C7_Witness ==
    /\ call.op = "getTrainCameras"
    /\ call.arg \notin Requested
    /\ call.outcome = "KeyError"

\* C7 case: a getter returned the list object of a requested scale
C7_WitnessOk ==
    /\ call.op = "getTestCameras"
    /\ call.arg \in Requested
    /\ call.ret.id > 0

\* C8: with neither sparse nor transforms_train.json the construction fails at
\* the dispatch: no loader ran, no file was written, no camera list was built
\* and no call was made on the model.
C8_UnrecognisedAborts ==
    (call.op = "Scene" /\ ~source.sparse /\ ~source.transforms) =>
        /\ call.outcome = "AssertionError"
        /\ ~scene.ok
        /\ call.loaders = <<>>
        /\ call.writes = {}
        /\ input_ply = None
        /\ cameras_json = None
        /\ DOMAIN scene.train_cameras = {}
        /\ DOMAIN scene.test_cameras = {}
        /\ call.modelCalls = <<>>

\* C8 case: a construction on an unrecognised layout, here with a selector
C8_Witness ==
    /\ call.op = "Scene"
    /\ ~source.sparse
    /\ ~source.transforms
    /\ init_args.load_iteration = Num(1)
    /\ call.outcome = "AssertionError"

\* C9: a construction with selector 'latest' that finds no saved iteration fails:
\* it writes neither file and does not create the model from the point cloud.
C9_LatestNothingFoundIsFatal ==
    (/\ call.op = "Scene"
     /\ init_args.load_iteration = Num(0 - 1)
     /\ SavedIterations(plyFiles) = {})
        => /\ call.outcome # "ok"
           /\ call.writes = {}
           /\ "create_from_pcd" \notin ModelCallNames

C10_List(list, records, s) ==
    /\ Len(list.cams) = Len(records)
    /\ Infos(list) \in Perms(records)
    /\ \A i \in 1..Len(list.cams) : list.cams[i].scale = s
    /\ ~init_args.shuffle => Infos(list) = records

\* C10: the train and the test list of every requested scale have the length of
\* the loader's sequence, hold a permutation of its own records, camera i built
\* from record i at that scale; all scales share one order, which is the
\* loader's order when the shuffle flag is off.
C10_CameraOrder ==
    scene.ok =>
        /\ \A s \in Requested :
              /\ C10_List(scene.train_cameras[s], Loaded.train_cameras, s)
              /\ C10_List(scene.test_cameras[s], Loaded.test_cameras, s)
        /\ \A s, t \in Requested :
              /\ Infos(scene.train_cameras[s]) = Infos(scene.train_cameras[t])
              /\ Infos(scene.test_cameras[s]) = Infos(scene.test_cameras[t])

\* C10 case: two scales, and the shuffle moved the train cameras
C10_Witness ==
    /\ scene.ok
    /\ init_args.shuffle
    /\ Cardinality(Requested) = 2
    /\ \A s \in Requested : Infos(scene.train_cameras[s]) # Loaded.train_cameras
====
